---- MODULE Spec2Model ----
(***************************************************************************)
(* Model of pixelfed_uploader: the persistent upload queue                 *)
(* (upload_queue.py) and the code that drives it (main.py).                *)
(*                                                                         *)
(* A queue item is a Python dict.  The model keeps, next to the six keys   *)
(* of the dict, the identity of the object ("id", what `is` compares) and  *)
(* two history fields: "nfail" counts the mark_failure calls that updated  *)
(* the object, "tfail" is the clock reading of the last of them.  None of  *)
(* the three takes part in the value comparison (==) that list.remove and  *)
(* list.index perform; Val(item) is the value of the dict.                 *)
(*                                                                         *)
(* Time is in whole seconds.  The wall clock never goes back and the UTC   *)
(* offset of the host does not change while the program runs.              *)
(***************************************************************************)
EXTENDS Integers, Sequences, FiniteSets, TLC

\* Python's None; nullable values are records, so that they compare with it
None == [none |-> TRUE]
Str(s) == [str |-> s]

\* ---- bounds of the model ----
\* longest queue, and largest retry_count, of the specifications below
MaxQueue == 2
MaxRetry == 2
MaxRetryBackoff == 6
MaxRetryStore == 1
MaxRetryCalls == 1
MaxRetryMain == 1
RetrySat == 5
\* UTC offset of the host's local time, in seconds
TzOffset == 3600

\* ---- inputs ----
Paths == {"a.jpg", "b.jpg"}
Captions == {""}
Errors == {Str("timeout")}
\* add called without a caption
DefaultCaption == ""

\* the file and the caption of the caller of NextCalls
CallPaths == {"a.jpg"}
CallCaptions == {"sunset"}
\* clock readings: the start and the first backoff threshold
Times == {0, 10}
\* clock readings: each backoff threshold and the second before it
BackoffTimes == {0, 9, 10, 29, 30, 59, 60, 119, 120, 299, 300}

VARIABLES
    queue,      \* UploadQueue.queue: the list of item dicts
    store,      \* the file at UploadQueue.queue_file
    held,       \* the item the caller got from its last get_next, or None
    now,        \* the wall clock
    writable,   \* whether writing the store succeeds
    th,         \* where the watcher's thread (w) and the poll loop (p) stand
    lastOp,     \* history: the last operation, the index it acted on, the queue
                \* before it and its argument
    main,       \* main(): where it stands, its exit status, processed_files
    env         \* what surrounds the process: its configuration, the watched
                \* directory at startup, whether the instance can be reached

vars == <<queue, store, held, now, writable, th, lastOp, main, env>>

\* ---- values ----
Val(item) ==
    [file_path |-> item.file_path, caption |-> item.caption,
     added_at |-> item.added_at, retry_count |-> item.retry_count,
     last_attempt |-> item.last_attempt, error |-> item.error]

\* the values of the items of a list, in order
Vals(q) == [i \in 1..Len(q) |-> Val(q[i])]

\* datetime.now().isoformat(): the local wall-clock reading, as text
IsoFormat(t) == [wall |-> t + TzOffset]

\* datetime.fromisoformat(s).timestamp(): back to seconds since the epoch
IsoTimestamp(s) == s.wall - TzOffset

NewItem(id, file_path, caption, t) ==
    [id |-> id, file_path |-> file_path, caption |-> caption,
     added_at |-> IsoFormat(t), retry_count |-> 0, last_attempt |-> None,
     error |-> None, nfail |-> 0, tfail |-> None]

\* ---- the durable store ----
Missing == [kind |-> "missing", doc |-> <<>>]
Partial == [kind |-> "partial", doc |-> <<>>]

\* faulty variant: the error message is not written
JsonObjectNoError(item) ==
    [file_path |-> item.file_path, caption |-> item.caption,
     added_at |-> item.added_at, retry_count |-> item.retry_count,
     last_attempt |-> item.last_attempt, error |-> None,
     nfail |-> item.nfail, tfail |-> item.tfail]

JsonObject(item) ==
    [file_path |-> item.file_path, caption |-> item.caption,
     added_at |-> item.added_at, retry_count |-> item.retry_count,
     last_attempt |-> item.last_attempt, error |-> item.error,
     nfail |-> item.nfail, tfail |-> item.tfail]

JsonDump(q) == [kind |-> "doc", doc |-> [i \in 1..Len(q) |-> JsonObject(q[i])]]

FromJson(o, id) ==
    [id |-> id, file_path |-> o.file_path, caption |-> o.caption,
     added_at |-> o.added_at, retry_count |-> o.retry_count,
     last_attempt |-> o.last_attempt, error |-> o.error, nfail |-> o.nfail,
     tfail |-> o.tfail]

LoadQueue(st) ==
    IF st.kind = "doc"
    THEN [i \in 1..Len(st.doc) |-> FromJson(st.doc[i], i)]
    ELSE <<>>

\* the stores _save_queue can leave behind: the whole document when the write
\* succeeds; when it fails, the old store (open failed) or a truncated,
\* unparsable file (the write failed after open(..., 'w') truncated it)
\* faulty variant: the mutation is not written through
SaveQueueNever(q, st, w) == {st}

\* faulty variant: a file left truncated by a failed write is not written again
SaveQueueSticky(q, st, w) ==
    IF w /\ st.kind # "partial" THEN {JsonDump(q)} ELSE {st, Partial}

SaveQueue(q, st, w) ==
    IF w THEN {JsonDump(q)} ELSE {st, Partial}

\* ---- get_next ----
\* faulty variant: the delay keeps growing after the fifth failure
BackoffUncapped(retry_count) ==
    IF retry_count = 0 THEN 0
    ELSE IF retry_count = 1 THEN 10
    ELSE IF retry_count = 2 THEN 30
    ELSE IF retry_count = 3 THEN 60
    ELSE IF retry_count = 4 THEN 120
    ELSE 300 * (retry_count - 4)

\* faulty variant: the fourth retry waits as long as the third
BackoffShort(retry_count) ==
    IF retry_count = 0 THEN 0
    ELSE IF retry_count = 1 THEN 10
    ELSE IF retry_count = 2 THEN 30
    ELSE IF retry_count = 3 THEN 60
    ELSE IF retry_count = 4 THEN 60
    ELSE 300

Backoff(retry_count) ==
    IF retry_count = 0 THEN 0
    ELSE IF retry_count = 1 THEN 10
    ELSE IF retry_count = 2 THEN 30
    ELSE IF retry_count = 3 THEN 60
    ELSE IF retry_count = 4 THEN 120
    ELSE 300

\* faulty variant: a never-attempted item is not taken
EligibleRetriesOnly(item, t) ==
    /\ item.last_attempt # None
    /\ t - IsoTimestamp(item.last_attempt) >= Backoff(item.retry_count)

Eligible(item, t) ==
    \/ item.last_attempt = None
    \/ t - IsoTimestamp(item.last_attempt) >= Backoff(item.retry_count)

\* faulty variant: the scan stops at the first item that is in backoff
ScanHeadOnly(q, t, i) ==
    IF i > Len(q) THEN 0
    ELSE IF Eligible(q[i], t) THEN i
    ELSE 0

RECURSIVE Scan(_, _, _)
Scan(q, t, i) ==
    IF i > Len(q) THEN 0
    ELSE IF Eligible(q[i], t) THEN i
    ELSE Scan(q, t, i + 1)

\* index of the item get_next returns, 0 for None
GetNextIdx(q, t) == IF Len(q) = 0 THEN 0 ELSE Scan(q, t, 1)

\* ---- list.index / list.remove: first element equal by value ----
RECURSIVE Find(_, _, _)
Find(q, item, i) ==
    IF i > Len(q) THEN 0
    ELSE IF Val(q[i]) = Val(item) THEN i
    ELSE Find(q, item, i + 1)

IndexOf(q, item) == Find(q, item, 1)

RemoveAt(q, j) == [i \in 1..(Len(q) - 1) |-> IF i < j THEN q[i] ELSE q[i + 1]]

\* faulty variant: the failure is counted but its time is not recorded
FailedNoStamp(item, error, t) ==
    [item EXCEPT !.retry_count = @ + 1,
                 !.error = error,
                 !.nfail = @ + 1,
                 !.tfail = [at |-> t]]

Failed(item, error, t) ==
    [item EXCEPT !.retry_count = @ + 1,
                 !.last_attempt = IsoFormat(t),
                 !.error = error,
                 !.nfail = @ + 1,
                 !.tfail = [at |-> t]]

\* ---- object identities ----
Ids == 1..(MaxQueue + 1)
QueueIds(q) == {q[i].id : i \in 1..Len(q)}
UsedIds(q, h) == QueueIds(q) \cup (IF h = None THEN {} ELSE {h.id})
FreshId(q, h) == CHOOSE id \in Ids \ UsedIds(q, h) :
                    \A other \in Ids \ UsedIds(q, h) : id <= other

\* the history of a call; for add, mark_success and mark_failure, stale tells
\* whether the store lagged behind the queue in memory when the call began
StoreLags ==
    IF store.kind # "doc" THEN Len(queue) # 0
    ELSE \/ Len(store.doc) # Len(queue)
         \/ \E i \in 1..Len(queue) : store.doc[i] # JsonObject(queue[i])

Op(op, idx, pre, arg) ==
    [op |-> op, idx |-> idx, pre |-> pre, arg |-> arg,
     stale |-> op \in {"add", "mark_success", "mark_failure"} /\ StoreLags]

\* the history of a get_next call: the clock reading of the call and, when the
\* call before it on this queue was a get_next too, what that one returned
Peek == [at |-> now,
         prev |-> IF lastOp.op = "get_next" THEN [item |-> held] ELSE None]

\* ---- get_stats ----
\* faulty variant: only the first item is counted
CountIfFirst(q, attempted, i) ==
    IF i <= Len(q) /\ (q[i].last_attempt # None) = attempted THEN 1 ELSE 0

RECURSIVE CountIf(_, _, _)
CountIf(q, attempted, i) ==
    IF i > Len(q) THEN 0
    ELSE (IF (q[i].last_attempt # None) = attempted THEN 1 ELSE 0)
         + CountIf(q, attempted, i + 1)

RECURSIVE MaxRetryCount(_, _)
MaxRetryCount(q, i) ==
    IF i > Len(q) THEN 0
    ELSE LET rest == MaxRetryCount(q, i + 1)
         IN IF q[i].retry_count > rest THEN q[i].retry_count ELSE rest

GetStats(q) ==
    IF Len(q) = 0
    THEN [total |-> 0, never_attempted |-> 0, retrying |-> 0, max_retry_count |-> 0]
    ELSE [total |-> Len(q),
          never_attempted |-> CountIf(q, FALSE, 1),
          retrying |-> CountIf(q, TRUE, 1),
          max_retry_count |-> MaxRetryCount(q, 1)]

\* a thread that is in none of the queue's operations
Idle == [pc |-> "idle", k |-> 0, buf |-> <<>>]

\* the queue used on its own: main() does not run
NoMain == [pc |-> "none"]
NoEnv == [kind |-> "none"]

\* ---- one caller: the operations run one after the other ----
Init ==
    /\ store = Missing
    /\ queue = LoadQueue(store)
    /\ held = None
    /\ now = 0
    /\ writable = TRUE
    /\ th = [w |-> Idle, p |-> Idle]
    /\ lastOp = Op("init", 0, <<>>, None)
    /\ main = NoMain
    /\ env = NoEnv

\* faulty variant: a file that is in the queue already is not added again
AddUnique(file_path, caption) ==
    /\ queue' = IF \E i \in 1..Len(queue) : queue[i].file_path = file_path
                THEN queue
                ELSE Append(queue, NewItem(FreshId(queue, held), file_path, caption, now))
    /\ store' \in SaveQueue(queue', store, writable)
    /\ lastOp' = Op("add", Len(queue'), queue,
                    [file_path |-> file_path, caption |-> caption])
    /\ UNCHANGED <<held, now, writable, th, main, env>>

\* add called at the clock reading t: what it does to the queue and the store
Enqueue(file_path, caption, t) ==
    /\ queue' = Append(queue, NewItem(FreshId(queue, held), file_path, caption, t))
    /\ store' \in SaveQueue(queue', store, writable)
    /\ lastOp' = Op("add", Len(queue'), queue,
                    [file_path |-> file_path, caption |-> caption])

Add(file_path, caption) ==
    /\ Enqueue(file_path, caption, now)
    /\ UNCHANGED <<held, now, writable, th, main, env>>

\* faulty variant: get_next records the attempt on the item it returns
GetNextStamps ==
    /\ LET i == GetNextIdx(queue, now)
       IN /\ held' = IF i = 0 THEN None ELSE queue[i]
          /\ queue' = IF i = 0 THEN queue
                      ELSE [queue EXCEPT ![i].last_attempt = IsoFormat(now)]
          /\ store' \in SaveQueue(queue', store, writable)
          /\ lastOp' = Op("get_next", i, queue, Peek)
    /\ UNCHANGED <<now, writable, th, main, env>>

\* faulty variant: get_next takes the item out of the queue
GetNextDequeues ==
    /\ LET i == GetNextIdx(queue, now)
       IN /\ held' = IF i = 0 THEN None ELSE queue[i]
          /\ queue' = IF i = 0 THEN queue ELSE RemoveAt(queue, i)
          /\ lastOp' = Op("get_next", i, queue, Peek)
    /\ UNCHANGED <<store, now, writable, th, main, env>>

GetNext ==
    /\ LET i == GetNextIdx(queue, now)
       IN /\ held' = IF i = 0 THEN None ELSE queue[i]
          /\ lastOp' = Op("get_next", i, queue, Peek)
    /\ UNCHANGED <<queue, store, now, writable, th, main, env>>

MarkSuccess ==
    /\ held # None
    /\ LET j == IndexOf(queue, held)
       IN /\ lastOp' = Op("mark_success", j, queue, None)
          /\ IF j = 0
             THEN UNCHANGED <<queue, store>>
             ELSE /\ queue' = RemoveAt(queue, j)
                  /\ store' \in SaveQueue(queue', store, writable)
    /\ UNCHANGED <<held, now, writable, th, main, env>>

\* faulty variant: the failed item goes to the back of the queue
MarkFailureToBack(error) ==
    /\ held # None
    /\ LET j == IndexOf(queue, held)
       IN /\ lastOp' = Op("mark_failure", j, queue, error)
          /\ IF j = 0
             THEN UNCHANGED <<queue, store, held>>
             ELSE /\ queue' = Append(RemoveAt(queue, j), Failed(queue[j], error, now))
                  /\ held' = IF queue[j].id = held.id THEN queue'[Len(queue')] ELSE held
                  /\ store' \in SaveQueue(queue', store, writable)
    /\ UNCHANGED <<now, writable, th, main, env>>

MarkFailure(error) ==
    /\ held # None
    /\ LET j == IndexOf(queue, held)
       IN /\ lastOp' = Op("mark_failure", j, queue, error)
          /\ IF j = 0
             THEN UNCHANGED <<queue, store, held>>
             ELSE /\ queue' = [queue EXCEPT ![j] = Failed(@, error, now)]
                  /\ held' = IF queue[j].id = held.id THEN queue'[j] ELSE held
                  /\ store' \in SaveQueue(queue', store, writable)
    /\ UNCHANGED <<now, writable, th, main, env>>

\* the clock moves on to the reading t
Tick(t) ==
    /\ t > now
    /\ now' = t
    /\ lastOp' = Op("tick", 0, <<>>, None)
    /\ UNCHANGED <<queue, store, held, writable, th, main, env>>

\* time passes while the caller makes no call
Wait(t) ==
    /\ t > now
    /\ now' = t
    /\ UNCHANGED <<queue, store, held, writable, th, lastOp, main, env>>

\* add called without a caption
AddDefault(file_path) == Add(file_path, DefaultCaption)

Stats ==
    /\ lastOp' = Op("get_stats", 0, queue, GetStats(queue))
    /\ UNCHANGED <<queue, store, held, now, writable, th, main, env>>

\* the store becomes unwritable (read-only directory, full disk), or writable again
SetWritable ==
    /\ writable' = ~writable
    /\ lastOp' = Op("env", 0, <<>>, None)
    /\ UNCHANGED <<queue, store, held, now, th, main, env>>

\* faulty variant: constructing the queue creates a missing store
RestartCreates ==
    /\ queue' = LoadQueue(store)
    /\ store' = IF store.kind = "missing" THEN JsonDump(queue') ELSE store
    /\ held' = None
    /\ lastOp' = Op("restart", 0, <<>>, None)
    /\ UNCHANGED <<now, writable, th, main, env>>

\* the process ends between two operations and a new UploadQueue is constructed
Restart ==
    /\ queue' = LoadQueue(store)
    /\ held' = None
    /\ lastOp' = Op("restart", 0, <<>>, None)
    /\ UNCHANGED <<store, now, writable, th, main, env>>

\* guards that keep the model finite
RoomFor(n) == Len(queue) < n
\* (the item mark_failure updates has the retry_count of the item passed)
RetryBelow(n) == held # None => held.retry_count < n

Next ==
    \/ \E p \in Paths, c \in Captions : RoomFor(MaxQueue) /\ Add(p, c)
    \/ GetNext
    \/ MarkSuccess
    \/ \E e \in Errors : RetryBelow(MaxRetry) /\ MarkFailure(e)
    \/ \E t \in Times : Tick(t)
    \/ Restart

Spec == Init /\ [][Next]_vars

\* one file, every backoff level
NextBackoff ==
    \/ RoomFor(1) /\ Add("a.jpg", "")
    \/ GetNext
    \/ MarkSuccess
    \/ \E e \in Errors : RetryBelow(MaxRetryBackoff) /\ MarkFailure(e)
    \/ \E t \in BackoffTimes : Tick(t)

SpecBackoff == Init /\ [][NextBackoff]_vars

\* a store that can fail, at one clock reading
NextStore ==
    \/ RoomFor(MaxQueue) /\ Add("a.jpg", "")
    \/ GetNext
    \/ MarkSuccess
    \/ \E e \in Errors : RetryBelow(MaxRetryStore) /\ MarkFailure(e)
    \/ SetWritable
    \/ Restart

SpecStore == Init /\ [][NextStore]_vars

\* a caller of the queue's methods that lets time pass between its calls
NextCalls ==
    \/ \E p \in CallPaths, c \in CallCaptions : RoomFor(MaxQueue) /\ Add(p, c)
    \/ \E p \in CallPaths : RoomFor(MaxQueue) /\ AddDefault(p)
    \/ GetNext
    \/ MarkSuccess
    \/ \E e \in Errors : RetryBelow(MaxRetryCalls) /\ MarkFailure(e)
    \/ \E t \in Times : Wait(t)
    \/ Stats

SpecCalls == Init /\ [][NextCalls]_vars

\* ---- what the poll loop hands to the executor ----
\* str(Path(s)) on the path strings of the model: "./a.jpg" is the one that
\* is not in normal form
PathStr(s) == IF s = "./a.jpg" THEN "a.jpg" ELSE s

PassAdds ==
    {[file_path |-> "a.jpg", caption |-> "sunset"],
     [file_path |-> "./a.jpg", caption |-> ""]}

\* faulty variant: the executor is called without the item's caption
CallExecutorNoCaption ==
    /\ held # None
    /\ lastOp.op = "get_next"
    /\ lastOp' = Op("upload_and_post", lastOp.idx, queue,
                    [file_path |-> PathStr(held.file_path), caption |-> ""])
    /\ UNCHANGED <<queue, store, held, now, writable, th, main, env>>

\* file_path = Path(item['file_path']); caption = item.get('caption', '');
\* client.upload_and_post(file_path, caption)
CallExecutor ==
    /\ held # None
    /\ lastOp.op = "get_next"
    /\ lastOp' = Op("upload_and_post", lastOp.idx, queue,
                    [file_path |-> PathStr(held.file_path), caption |-> held.caption])
    /\ UNCHANGED <<queue, store, held, now, writable, th, main, env>>

NextPass ==
    \/ \E a \in PassAdds : RoomFor(MaxQueue) /\ Add(a.file_path, a.caption)
    \/ GetNext
    \/ CallExecutor
    \/ MarkSuccess
    \/ \E e \in Errors : RetryBelow(MaxRetryCalls) /\ MarkFailure(e)
    \/ \E t \in Times : Tick(t)

SpecPass == Init /\ [][NextPass]_vars

\* ---- the feed adapter: ImageUploadHandler and scan_existing_files ----
IMAGE_EXTENSIONS == {".jpg", ".jpeg", ".png", ".gif", ".webp"}

\* the names under the watched directory that creation events carry, and the
\* names that can be there when the process starts
FeedNames == {"new.jpg", "SHOT.JPG", "old.png", "notes.txt"}
StartupNames == {"SHOT.JPG", "old.png"}

\* Path(name).suffix
Suffix(name) ==
    CASE name = "new.jpg" -> ".jpg"
      [] name = "SHOT.JPG" -> ".JPG"
      [] name = "old.png" -> ".png"
      [] name = "notes.txt" -> ".txt"

\* faulty variant: the extension is compared as it is written
LowerAsIs(suffix) == suffix

\* str.lower() on the suffixes above
Lower(suffix) == IF suffix = ".JPG" THEN ".jpg" ELSE suffix

\* the directory entries at startup: no name is there twice
StartupDirs ==
    {d \in SUBSET [name : StartupNames, is_file : BOOLEAN] :
        \A e1 \in d, e2 \in d : e1.name = e2.name => e1 = e2}

FeedEvents == [src_path : FeedNames, is_directory : BOOLEAN]

\* faulty variant: the files found at startup are not remembered
ScanNothing(dir) == {}

ScanExistingFiles(dir) ==
    {e.name : e \in {x \in dir : x.is_file /\ Lower(Suffix(x.name)) \in IMAGE_EXTENSIONS}}

\* the feed adapter after main() has set it up; calls counts the add calls
\* made for each name and seen collects the events delivered (history)
InitFeed ==
    /\ store = Missing
    /\ queue = LoadQueue(store)
    /\ held = None
    /\ now = 0
    /\ writable = TRUE
    /\ th = [w |-> Idle, p |-> Idle]
    /\ lastOp = Op("init", 0, <<>>, None)
    /\ env \in [dir : StartupDirs]
    /\ main = [pc |-> "loop",
               processed |-> ScanExistingFiles(env.dir),
               calls |-> [n \in FeedNames |-> 0],
               seen |-> {}]

\* on_created, run by the observer's thread for one event at a time
OnCreated(event) ==
    LET file_path == event.src_path
        ignored == \/ event.is_directory
                   \/ Lower(Suffix(file_path)) \notin IMAGE_EXTENSIONS
                   \/ file_path \in main.processed
    IN IF ignored
       THEN /\ main' = [main EXCEPT !.seen = @ \cup {event}]
            /\ lastOp' = Op("on_created", 0, queue, event)
            /\ UNCHANGED <<queue, store, held, now, writable, th, env>>
       ELSE /\ now' = now + 1
            /\ Enqueue(file_path, DefaultCaption, now')
            /\ main' = [main EXCEPT !.seen = @ \cup {event},
                                    !.processed = @ \cup {file_path},
                                    !.calls[file_path] = @ + 1]
            /\ UNCHANGED <<held, writable, th, env>>

\* the adapter beside a caller that drains the queue
NextFeed ==
    \/ \E event \in FeedEvents : OnCreated(event)
    \/ GetNext
    \/ MarkSuccess

SpecFeed == InitFeed /\ [][NextFeed]_vars

\* ---- the operations step by step ----
\* main() runs the poll loop (p) in the main thread while watchdog's observer
\* thread (w) calls ImageUploadHandler.on_created, hence add; nothing locks
\* the queue.  A thread's pc: "idle", "upload" (the poll loop between get_next
\* and the outcome call), and inside _save_queue "open" (about to open the
\* file), "dump" (json.dump walks the list, k is its index, buf the text
\* written to the file object's buffer) and "close" (about to flush and close).
\* The encoding of one dict and the three assignments of mark_failure are
\* taken as one step each.

\* size in bytes of the text json.dump writes for one item and for a list
JsonBytes(o) ==
    150 + (IF o.last_attempt = None THEN 4 ELSE 28)
        + (IF o.error = None THEN 4 ELSE 9)

RECURSIVE DocBytes(_, _)
DocBytes(doc, i) ==
    IF i > Len(doc) THEN 2 ELSE JsonBytes(doc[i]) + 4 + DocBytes(doc, i + 1)

StoreBytes(st) == IF st.kind = "doc" THEN DocBytes(st.doc, 1) ELSE 0

\* closing the file writes the buffered text at offset 0: over an empty file
\* or a shorter text it leaves that text, over a longer text another file
\* object wrote meanwhile it leaves that text's tail behind it, which json
\* cannot parse
Flush(st, buf) ==
    IF StoreBytes(st) > DocBytes(buf, 1) THEN Partial
    ELSE [kind |-> "doc", doc |-> buf]

WatcherAdd(file_path, caption) ==
    /\ th.w.pc = "idle"
    /\ queue' = Append(queue, NewItem(FreshId(queue, held), file_path, caption, now))
    /\ th' = [th EXCEPT !.w.pc = "open"]
    /\ lastOp' = Op("add", Len(queue'), queue,
                    [file_path |-> file_path, caption |-> caption])
    /\ UNCHANGED <<store, held, now, writable, main, env>>

SaveOpen(t) ==
    /\ th[t].pc = "open"
    /\ store' = Partial
    /\ th' = [th EXCEPT ![t] = [pc |-> "dump", k |-> 1, buf |-> <<>>]]
    /\ UNCHANGED <<queue, held, now, writable, lastOp, main, env>>

SaveDump(t) ==
    /\ th[t].pc = "dump"
    /\ th' = IF th[t].k <= Len(queue)
             THEN [th EXCEPT ![t].buf = Append(@, JsonObject(queue[th[t].k])),
                             ![t].k = @ + 1]
             ELSE [th EXCEPT ![t].pc = "close"]
    /\ UNCHANGED <<queue, store, held, now, writable, lastOp, main, env>>

SaveClose(t) ==
    /\ th[t].pc = "close"
    /\ store' = Flush(store, th[t].buf)
    /\ th' = [th EXCEPT ![t] = Idle]
    /\ UNCHANGED <<queue, held, now, writable, lastOp, main, env>>

PollGetNext ==
    /\ th.p.pc = "idle"
    /\ LET i == GetNextIdx(queue, now)
       IN /\ held' = IF i = 0 THEN None ELSE queue[i]
          /\ th' = [th EXCEPT !.p.pc = IF i = 0 THEN "idle" ELSE "upload"]
          /\ lastOp' = Op("get_next", i, queue, Peek)
    /\ UNCHANGED <<queue, store, now, writable, main, env>>

\* upload_and_post returned success
PollMarkSuccess ==
    /\ th.p.pc = "upload"
    /\ LET j == IndexOf(queue, held)
       IN /\ lastOp' = Op("mark_success", j, queue, None)
          /\ queue' = IF j = 0 THEN queue ELSE RemoveAt(queue, j)
          /\ th' = [th EXCEPT !.p.pc = IF j = 0 THEN "idle" ELSE "open"]
    /\ UNCHANGED <<store, held, now, writable, main, env>>

\* upload_and_post returned failure
PollMarkFailure(error) ==
    /\ th.p.pc = "upload"
    /\ LET j == IndexOf(queue, held)
       IN /\ lastOp' = Op("mark_failure", j, queue, error)
          /\ queue' = IF j = 0 THEN queue
                      ELSE [queue EXCEPT ![j] = Failed(@, error, now)]
          /\ held' = IF j # 0 /\ queue[j].id = held.id THEN queue'[j] ELSE held
          /\ th' = [th EXCEPT !.p.pc = IF j = 0 THEN "idle" ELSE "open"]
    /\ UNCHANGED <<store, now, writable, main, env>>

InSave(t) == th[t].pc \in {"open", "dump", "close"}

\* the process stops (kill, power loss) and the next start constructs a new
\* UploadQueue from the store; the history keeps the queue before the
\* operation that was cut short and the queue in memory at the crash
Crash ==
    /\ queue' = LoadQueue(store)
    /\ held' = None
    /\ th' = [w |-> Idle, p |-> Idle]
    /\ lastOp' = [op |-> "crash", idx |-> 0,
                  pre |-> IF InSave("w") \/ InSave("p") THEN lastOp.pre ELSE queue,
                  arg |-> None, stale |-> FALSE, post |-> queue]
    /\ UNCHANGED <<store, now, writable, main, env>>

\* the two threads, every interleaving
NextConc ==
    \/ RoomFor(MaxQueue) /\ WatcherAdd("a.jpg", "")
    \/ \E t \in {"w", "p"} : SaveOpen(t)
    \/ \E t \in {"w", "p"} : SaveDump(t)
    \/ \E t \in {"w", "p"} : SaveClose(t)
    \/ PollGetNext
    \/ PollMarkSuccess
    \/ \E e \in Errors : RetryBelow(MaxRetry) /\ PollMarkFailure(e)
    \/ Tick(10)

SpecConc == Init /\ [][NextConc]_vars

\* one operation at a time, and a process that can stop at any step
NextCrash ==
    \/ ~InSave("p") /\ RoomFor(MaxQueue) /\ WatcherAdd("a.jpg", "")
    \/ \E t \in {"w", "p"} : SaveOpen(t)
    \/ \E t \in {"w", "p"} : SaveDump(t)
    \/ \E t \in {"w", "p"} : SaveClose(t)
    \/ ~InSave("w") /\ PollGetNext
    \/ ~InSave("w") /\ PollMarkSuccess
    \/ \E e \in Errors : ~InSave("w") /\ RetryBelow(MaxRetry) /\ PollMarkFailure(e)
    \/ Tick(10)
    \/ Crash

SpecCrash == Init /\ [][NextCrash]_vars

\* ---- the upload executor: PixelfedClient.upload_and_post ----
\* what the attempt meets: whether the file is there, how the media upload
\* ends and, when it returned a media object with an id, how the post ends
\* ("empty" is a 2xx response whose JSON body is an empty object, "noid" a
\* media object without id, "emptyid" one whose id is the empty string,
\* "notobject" a 2xx response whose body is no JSON object)
Responses ==
    {[exists |-> FALSE, media |-> "ok", post |-> "ok"]}
    \cup [exists : {TRUE}, media : {"conn", "timeout", "http", "empty", "noid"},
          post : {"ok"}]
    \cup [exists : {TRUE}, media : {"ok"},
          post : {"conn", "timeout", "http", "empty", "ok"}]

\* upload_media: the media object, or None, and the error message (of the
\* messages the model keeps the words before the file name or the exception)
UploadMedia(resp) ==
    IF ~resp.exists THEN [media |-> None, error |-> Str("File not found")]
    ELSE CASE resp.media = "conn" ->
                  [media |-> None, error |-> Str("Connection error while uploading")]
           [] resp.media = "timeout" ->
                  [media |-> None, error |-> Str("Timeout while uploading")]
           [] resp.media = "http" ->
                  [media |-> None, error |-> Str("Request failed")]
           [] resp.media = "notobject" ->
                  [media |-> None, error |-> Str("Unexpected error uploading")]
           [] resp.media = "empty" -> [media |-> [empty |-> TRUE], error |-> None]
           [] resp.media = "noid" -> [media |-> [id |-> None], error |-> None]
           [] resp.media = "emptyid" -> [media |-> [id |-> Str("")], error |-> None]
           [] resp.media = "ok" -> [media |-> [id |-> Str("1")], error |-> None]

\* create_post: the post object, or None, and the error message
CreatePost(resp) ==
    CASE resp.post = "conn" ->
             [post |-> None, error |-> Str("Connection error while creating post")]
      [] resp.post = "timeout" ->
             [post |-> None, error |-> Str("Timeout while creating post")]
      [] resp.post = "http" ->
             [post |-> None, error |-> Str("Request failed while creating post")]
      [] resp.post = "notobject" ->
             [post |-> None, error |-> Str("Unexpected error creating post")]
      [] resp.post = "empty" -> [post |-> [empty |-> TRUE], error |-> None]
      [] resp.post = "ok" -> [post |-> [url |-> Str("u")], error |-> None]

\* Python's truth value of what upload_media and create_post return
Falsy(x) == x = None \/ x = [empty |-> TRUE] \/ x = Str("")

UploadAndPost(resp) ==
    LET m == UploadMedia(resp)
    IN IF Falsy(m.media) THEN [success |-> FALSE, error |-> m.error]
       ELSE IF Falsy(m.media.id)
       THEN [success |-> FALSE, error |-> Str("No media ID returned")]
       ELSE LET c == CreatePost(resp)
            IN IF Falsy(c.post) THEN [success |-> FALSE, error |-> c.error]
               ELSE [success |-> TRUE, error |-> None]

\* error or "Unknown error"
ErrorOr(error) == IF error = None THEN Str("Unknown error") ELSE error

\* ---- upload_and_post step by step, with the requests it sends ----
\* main.pc: "idle" (no call under way), "media" (in upload_media),
\* "checked" (upload_media returned), "post" (in create_post), "done"
\* (upload_and_post returned main.result).  main.sent counts the POST
\* requests of the call under way, per endpoint; main.status is the form
\* data of the statuses request.  env holds the client's settings and what
\* the remote side answers during the call.
ExecResponses ==
    Responses
    \cup [exists : {TRUE}, media : {"notobject", "emptyid"}, post : {"ok"}]
    \cup [exists : {TRUE}, media : {"ok"}, post : {"notobject"}]
ExecCaptions == {"", "sunset"}
DefaultCaptions == {"", "from my folder"}
Licenses == {"", "CC BY"}

\* the parts " ".join puts together: the non-empty ones, in this order
CaptionParts(caption, default_caption, cc_license) ==
    (IF caption # "" THEN <<caption>> ELSE <<>>)
    \o (IF default_caption # "" THEN <<default_caption>> ELSE <<>>)
    \o (IF cc_license # "" THEN <<cc_license>> ELSE <<>>)

ExecIdle ==
    [pc |-> "idle", file_path |-> "", caption |-> "",
     sent |-> [media |-> 0, statuses |-> 0],
     media |-> None, error |-> None, status |-> None, result |-> None]

InitExec ==
    /\ queue = <<>>
    /\ store = Missing
    /\ held = None
    /\ now = 0
    /\ writable = TRUE
    /\ th = [w |-> Idle, p |-> Idle]
    /\ lastOp = Op("init", 0, <<>>, None)
    /\ env \in [default_caption : DefaultCaptions, cc_license : Licenses,
                 resp : {[exists |-> TRUE, media |-> "ok", post |-> "ok"]}]
    /\ main = ExecIdle

\* upload_and_post(file_path, caption) is called
ExecCall(file_path, caption, resp) ==
    /\ main.pc = "idle"
    /\ main' = [ExecIdle EXCEPT !.pc = "media", !.file_path = file_path,
                                !.caption = caption]
    /\ env' = [env EXCEPT !.resp = resp]
    /\ UNCHANGED <<queue, store, held, now, writable, th, lastOp>>

\* upload_media: no request for a missing file, else one POST to /media
ExecUploadMedia ==
    /\ main.pc = "media"
    /\ LET m == UploadMedia(env.resp)
       IN main' = [main EXCEPT !.pc = "checked",
                               !.sent.media = IF env.resp.exists THEN @ + 1 ELSE @,
                               !.media = m.media, !.error = m.error]
    /\ UNCHANGED <<queue, store, held, now, writable, th, lastOp, env>>

\* faulty variant: a failed media upload is tried once more
ExecCheckMediaRetries ==
    /\ main.pc = "checked"
    /\ main' = IF Falsy(main.media) /\ main.sent.media < 2
               THEN [main EXCEPT !.pc = "media"]
               ELSE IF Falsy(main.media)
               THEN [main EXCEPT !.pc = "done",
                        !.result = [success |-> FALSE, error |-> main.error]]
               ELSE IF Falsy(main.media.id)
               THEN [main EXCEPT !.pc = "done",
                        !.result = [success |-> FALSE,
                                    error |-> Str("No media ID returned")]]
               ELSE [main EXCEPT !.pc = "post"]
    /\ UNCHANGED <<queue, store, held, now, writable, th, lastOp, env>>

\* the tests of the media object and of its id
ExecCheckMedia ==
    /\ main.pc = "checked"
    /\ main' = IF Falsy(main.media)
               THEN [main EXCEPT !.pc = "done",
                        !.result = [success |-> FALSE, error |-> main.error]]
               ELSE IF Falsy(main.media.id)
               THEN [main EXCEPT !.pc = "done",
                        !.result = [success |-> FALSE,
                                    error |-> Str("No media ID returned")]]
               ELSE [main EXCEPT !.pc = "post"]
    /\ UNCHANGED <<queue, store, held, now, writable, th, lastOp, env>>

\* the caption is put together, create_post sends one POST to /statuses,
\* and upload_and_post returns
ExecCreatePost ==
    /\ main.pc = "post"
    /\ LET c == CreatePost(env.resp)
       IN main' = [main EXCEPT
               !.pc = "done",
               !.sent.statuses = @ + 1,
               !.status = [status |-> CaptionParts(main.caption,
                                         env.default_caption, env.cc_license),
                           media_ids |-> <<main.media.id>>],
               !.result = IF Falsy(c.post)
                          THEN [success |-> FALSE, error |-> c.error]
                          ELSE [success |-> TRUE, error |-> None]]
    /\ UNCHANGED <<queue, store, held, now, writable, th, lastOp, env>>

\* the caller has the result
ExecReturn ==
    /\ main.pc = "done"
    /\ main' = ExecIdle
    /\ UNCHANGED <<queue, store, held, now, writable, th, lastOp, env>>

NextExec ==
    \/ \E file_path \in CallPaths, caption \in ExecCaptions, resp \in ExecResponses :
           ExecCall(file_path, caption, resp)
    \/ ExecUploadMedia
    \/ ExecCheckMedia
    \/ ExecCreatePost
    \/ ExecReturn

SpecExec == InitExec /\ [][NextExec]_vars

\* ---- main(): startup, the poll loop, the interrupt ----
\* main.pc: "config" (reading the environment), "startup" (lines 146-179),
\* then inside the try block "loop" (about to call process_upload_queue),
\* "check" (in check_connection), "select" (about to call get_next),
\* "attempt" (from upload_and_post to the return of the outcome call; th.p
\* tells where), "sleep"; "stopping" (in the except block and observer.join)
\* and "exited".
Configs ==
    [instance_url : {None, Str(""), Str("https://pixelfed.example")},
     access_token : {None, Str(""), Str("token")}]

\* not instance_url or not access_token
ConfigMissing(config) ==
    \/ config.instance_url \in {None, Str("")}
    \/ config.access_token \in {None, Str("")}

\* the files that appear in the watched directory while the process runs
MainNames == {"new.jpg", "SHOT.JPG"}
\* clock readings the poll loop wakes up at
MainTimes == {2, 12}

InTry == main.pc \in {"loop", "check", "select", "attempt", "sleep"}

InitMain ==
    /\ store = Missing
    /\ queue = <<>>
    /\ held = None
    /\ now = 0
    /\ writable = TRUE
    /\ th = [w |-> Idle, p |-> Idle]
    /\ lastOp = Op("init", 0, <<>>, None)
    /\ env \in [config : Configs, dir : {{}}, up : BOOLEAN]
    /\ main = [pc |-> "config", exit |-> None, processed |-> {}, cut |-> None]

MainConfig ==
    /\ main.pc = "config"
    /\ main' = IF ConfigMissing(env.config)
               THEN [main EXCEPT !.pc = "exited", !.exit = [code |-> 1]]
               ELSE [main EXCEPT !.pc = "startup"]
    /\ lastOp' = Op("config", 0, queue, None)
    /\ UNCHANGED <<queue, store, held, now, writable, th, env>>

MainStartup ==
    /\ main.pc = "startup"
    /\ queue' = LoadQueue(store)
    /\ main' = [main EXCEPT !.pc = "loop", !.processed = ScanExistingFiles(env.dir)]
    /\ lastOp' = Op("startup", 0, queue, None)
    /\ UNCHANGED <<store, held, now, writable, th, env>>

\* process_upload_queue, up to the size test
PollStart ==
    /\ main.pc = "loop"
    /\ main' = [main EXCEPT !.pc = IF Len(queue) = 0 THEN "sleep" ELSE "check"]
    /\ lastOp' = Op("size", 0, queue, None)
    /\ UNCHANGED <<queue, store, held, now, writable, th, env>>

\* faulty variant: a failed connectivity check is charged to the first item
PollCheckCharges ==
    /\ main.pc = "check"
    /\ main' = [main EXCEPT !.pc = IF env.up THEN "select" ELSE "sleep"]
    /\ queue' = IF env.up THEN queue
                ELSE [queue EXCEPT ![1] = Failed(@, Str("No connection"), now)]
    /\ lastOp' = Op("check_connection", 0, queue, [ok |-> env.up])
    /\ UNCHANGED <<store, held, now, writable, th, env>>

\* check_connection returns, and the test of its result
PollCheck ==
    /\ main.pc = "check"
    /\ main' = [main EXCEPT !.pc = IF env.up THEN "select" ELSE "sleep"]
    /\ lastOp' = Op("check_connection", 0, queue, [ok |-> env.up])
    /\ UNCHANGED <<queue, store, held, now, writable, th, env>>

\* get_next and, for an item, the start of upload_and_post
PollSelect ==
    /\ main.pc = "select"
    /\ LET i == GetNextIdx(queue, now)
       IN /\ held' = IF i = 0 THEN None ELSE queue[i]
          /\ main' = [main EXCEPT !.pc = IF i = 0 THEN "sleep" ELSE "attempt"]
          /\ th' = [th EXCEPT !.p.pc = IF i = 0 THEN "idle" ELSE "upload"]
          /\ lastOp' = Op("get_next", i, queue, Peek)
    /\ UNCHANGED <<queue, store, now, writable, env>>

\* faulty variant: a failed attempt ends the process
PollOutcomeFatal(resp) ==
    /\ main.pc = "attempt"
    /\ LET r == UploadAndPost(resp)
       IN IF r.success THEN PollMarkSuccess
          ELSE /\ th.p.pc = "upload"
               /\ main' = [main EXCEPT !.pc = "exited", !.exit = [code |-> 1]]
               /\ th' = [th EXCEPT !.p = Idle]
               /\ lastOp' = Op("raise", 0, queue, ErrorOr(r.error))
               /\ UNCHANGED <<queue, store, held, now, writable, env>>

\* upload_and_post returns and the outcome is passed to the queue
PollOutcome(resp) ==
    /\ main.pc = "attempt"
    /\ LET r == UploadAndPost(resp)
       IN IF r.success THEN PollMarkSuccess
          ELSE RetryBelow(MaxRetryMain) /\ PollMarkFailure(ErrorOr(r.error))

\* faulty variant: the cycle ends while the attempt is still under way
PollReturnEarly ==
    /\ main.pc = "attempt"
    /\ th.p.pc \in {"idle", "upload"}
    /\ main' = [main EXCEPT !.pc = "sleep"]
    /\ lastOp' = Op("return", 0, queue, None)
    /\ UNCHANGED <<queue, store, held, now, writable, th, env>>

\* the outcome call has returned: get_stats for the log, and the return
PollReturn ==
    /\ main.pc = "attempt"
    /\ th.p.pc = "idle"
    /\ main' = [main EXCEPT !.pc = "sleep"]
    /\ lastOp' = Op("return", 0, queue, None)
    /\ UNCHANGED <<queue, store, held, now, writable, th, env>>

\* time.sleep(2): the loop goes on at a later clock reading, at the last
\* reading of the model without the clock moving
PollSleep ==
    /\ main.pc = "sleep"
    /\ now' \in IF \E t \in MainTimes : t >= now + 2
                THEN {t \in MainTimes : t >= now + 2}
                ELSE {now}
    /\ main' = [main EXCEPT !.pc = "loop"]
    /\ lastOp' = Op("sleep", 0, queue, None)
    /\ UNCHANGED <<queue, store, held, writable, th, env>>

\* on_created in the observer's thread, for a new image file, between two
\* steps of the main thread (the interleavings of its _save_queue with the
\* main thread's are those of SpecConc)
WatcherCreated(name) ==
    /\ InTry
    /\ name \notin main.processed
    /\ Enqueue(name, DefaultCaption, now)
    /\ main' = [main EXCEPT !.processed = @ \cup {name}]
    /\ UNCHANGED <<held, now, writable, th, env>>

\* the instance becomes unreachable, or reachable again
NetFlip ==
    /\ InTry
    /\ env' = [env EXCEPT !.up = ~@]
    /\ UNCHANGED <<queue, store, held, now, writable, th, lastOp, main>>

\* KeyboardInterrupt in the main thread.  Before the try block nothing
\* catches it.  Inside, it ends whatever process_upload_queue was doing (no
\* except clause below main() catches it; a file open for writing is closed
\* with what was written to its buffer) and main() goes on in its except
\* block; cut keeps where it struck.
Interrupt ==
    /\ main.pc \in {"config", "startup"} \/ InTry
    /\ main' = IF InTry
               THEN [main EXCEPT !.pc = "stopping",
                                 !.cut = [pc |-> main.pc, p |-> th.p.pc]]
               ELSE [main EXCEPT !.pc = "exited", !.exit = [code |-> 130],
                                 !.cut = [pc |-> main.pc, p |-> th.p.pc]]
    /\ th' = [th EXCEPT !.p = Idle]
    /\ store' = IF th.p.pc = "close" THEN Flush(store, th.p.buf) ELSE store
    /\ lastOp' = Op("interrupt", 0, queue, None)
    /\ UNCHANGED <<queue, held, now, writable, env>>

\* observer.stop(), observer.join(), the last get_stats, and the end of
\* main()
MainExit ==
    /\ main.pc = "stopping"
    /\ main' = [main EXCEPT !.pc = "exited", !.exit = [code |-> 0]]
    /\ lastOp' = Op("exit", 0, queue, None)
    /\ UNCHANGED <<queue, store, held, now, writable, th, env>>

NextMain ==
    \/ MainConfig
    \/ MainStartup
    \/ PollStart
    \/ PollCheck
    \/ PollSelect
    \/ \E resp \in Responses : PollOutcome(resp)
    \/ PollReturn
    \/ PollSleep
    \/ SaveOpen("p")
    \/ SaveDump("p")
    \/ SaveClose("p")
    \/ \E name \in MainNames : WatcherCreated(name)
    \/ NetFlip
    \/ Interrupt
    \/ MainExit

SpecMain == InitMain /\ [][NextMain]_vars

\* the main thread keeps running: every call it makes returns (the requests
\* of the client carry timeouts of 10, 60 and 30 s, time.sleep(2) ends)
MainThread ==
    \/ MainConfig
    \/ MainStartup
    \/ PollStart
    \/ PollCheck
    \/ PollSelect
    \/ \E resp \in Responses : PollOutcome(resp)
    \/ PollReturn
    \/ PollSleep
    \/ SaveOpen("p")
    \/ SaveDump("p")
    \/ SaveClose("p")
    \/ MainExit

\* the same process with one file arriving, and the main thread running on
NextLoop ==
    \/ MainThread
    \/ WatcherCreated("new.jpg")
    \/ NetFlip
    \/ Interrupt

SpecLoop == InitMain /\ [][NextLoop]_vars /\ WF_vars(MainThread)

\* ---- process_upload_queue call by call ----
\* main.pc: "loop" (about to call process_upload_queue), "check" (in
\* check_connection), "select" (about to call get_next), "call" (in
\* upload_and_post), "outcome" (upload_and_post has returned main.result),
\* "sleep".  main.log: the calls process_upload_queue has made since it was
\* entered last.  main.result.posted: the statuses request was sent and
\* answered 2xx.
CycleNames == {"new.jpg", "SHOT.JPG"}
CycleTimes == {2, 12}

CycleResult(resp) ==
    LET r == UploadAndPost(resp)
    IN [success |-> r.success, error |-> r.error,
        posted |-> /\ resp.exists
                   /\ resp.media = "ok"
                   /\ resp.post \in {"ok", "empty", "notobject"}]

InitCycle ==
    /\ store = Missing
    /\ queue = <<>>
    /\ held = None
    /\ now = 0
    /\ writable = TRUE
    /\ th = [w |-> Idle, p |-> Idle]
    /\ lastOp = Op("init", 0, <<>>, None)
    /\ env \in [up : BOOLEAN]
    /\ main = [pc |-> "loop", processed |-> {}, log |-> <<>>, result |-> None]

\* faulty variant: the connectivity check comes before the size test
CycleStartProbes ==
    /\ main.pc = "loop"
    /\ main' = [main EXCEPT !.pc = IF Len(queue) = 0 THEN "sleep" ELSE "check",
                            !.log = <<"check_connection">>,
                            !.result = None]
    /\ lastOp' = Op("size", 0, queue, None)
    /\ UNCHANGED <<queue, store, held, now, writable, th, env>>

\* if upload_queue.size() == 0: return
CycleStart ==
    /\ main.pc = "loop"
    /\ main' = [main EXCEPT !.pc = IF Len(queue) = 0 THEN "sleep" ELSE "check",
                            !.log = <<>>,
                            !.result = None]
    /\ lastOp' = Op("size", 0, queue, None)
    /\ UNCHANGED <<queue, store, held, now, writable, th, env>>

\* if not client.check_connection(): return
CycleCheck ==
    /\ main.pc = "check"
    /\ main' = [main EXCEPT !.pc = IF env.up THEN "select" ELSE "sleep",
                            !.log = Append(@, "check_connection")]
    /\ lastOp' = Op("check_connection", 0, queue, [ok |-> env.up])
    /\ UNCHANGED <<queue, store, held, now, writable, th, env>>

\* item = upload_queue.get_next(); if not item: return
CycleSelect ==
    /\ main.pc = "select"
    /\ LET i == GetNextIdx(queue, now)
       IN /\ held' = IF i = 0 THEN None ELSE queue[i]
          /\ main' = [main EXCEPT !.pc = IF i = 0 THEN "sleep" ELSE "call",
                                  !.log = Append(@, "get_next")]
          /\ lastOp' = Op("get_next", i, queue, Peek)
    /\ UNCHANGED <<queue, store, now, writable, th, env>>

\* success, error = client.upload_and_post(file_path, caption)
CycleCall(resp) ==
    /\ main.pc = "call"
    /\ UploadAndPost(resp).success \/ RetryBelow(MaxRetryMain)
    /\ main' = [main EXCEPT !.pc = "outcome",
                            !.log = Append(@, "upload_and_post"),
                            !.result = CycleResult(resp)]
    /\ lastOp' = Op("upload_and_post", 0, queue,
                    [file_path |-> PathStr(held.file_path), caption |-> held.caption])
    /\ UNCHANGED <<queue, store, held, now, writable, th, env>>

\* faulty variant: the executor's error goes to mark_failure as it is
CycleOutcomeRawError ==
    /\ main.pc = "outcome"
    /\ LET j == IndexOf(queue, held)
           error == main.result.error
       IN IF main.result.success
          THEN /\ lastOp' = Op("mark_success", j, queue, None)
               /\ queue' = IF j = 0 THEN queue ELSE RemoveAt(queue, j)
               /\ held' = held
               /\ main' = [main EXCEPT !.pc = "sleep", !.log = Append(@, "mark_success")]
          ELSE /\ lastOp' = Op("mark_failure", j, queue, error)
               /\ queue' = IF j = 0 THEN queue
                           ELSE [queue EXCEPT ![j] = Failed(@, error, now)]
               /\ held' = IF j # 0 /\ queue[j].id = held.id THEN queue'[j] ELSE held
               /\ main' = [main EXCEPT !.pc = "sleep", !.log = Append(@, "mark_failure")]
    /\ store' \in IF queue' = queue THEN {store} ELSE SaveQueue(queue', store, writable)
    /\ UNCHANGED <<now, writable, th, env>>

\* if success: mark_success(item) else: mark_failure(item, error or
\* "Unknown error"); then get_stats for the log line, and the return
CycleOutcome ==
    /\ main.pc = "outcome"
    /\ LET j == IndexOf(queue, held)
           error == ErrorOr(main.result.error)
       IN IF main.result.success
          THEN /\ lastOp' = Op("mark_success", j, queue, None)
               /\ queue' = IF j = 0 THEN queue ELSE RemoveAt(queue, j)
               /\ held' = held
               /\ main' = [main EXCEPT !.pc = "sleep", !.log = Append(@, "mark_success")]
          ELSE /\ lastOp' = Op("mark_failure", j, queue, error)
               /\ queue' = IF j = 0 THEN queue
                           ELSE [queue EXCEPT ![j] = Failed(@, error, now)]
               /\ held' = IF j # 0 /\ queue[j].id = held.id THEN queue'[j] ELSE held
               /\ main' = [main EXCEPT !.pc = "sleep", !.log = Append(@, "mark_failure")]
    /\ store' \in IF queue' = queue THEN {store} ELSE SaveQueue(queue', store, writable)
    /\ UNCHANGED <<now, writable, th, env>>

\* time.sleep(2)
CycleSleep ==
    /\ main.pc = "sleep"
    /\ now' \in IF \E t \in CycleTimes : t >= now + 2
                THEN {t \in CycleTimes : t >= now + 2}
                ELSE {now}
    /\ main' = [main EXCEPT !.pc = "loop"]
    /\ lastOp' = Op("sleep", 0, queue, None)
    /\ UNCHANGED <<queue, store, held, writable, th, env>>

\* on_created in the observer's thread, for a new image file
CycleCreated(name) ==
    /\ name \notin main.processed
    /\ Enqueue(name, DefaultCaption, now)
    /\ main' = [main EXCEPT !.processed = @ \cup {name}]
    /\ UNCHANGED <<held, now, writable, th, env>>

\* the instance becomes unreachable, or reachable again
CycleNetFlip ==
    /\ env' = [env EXCEPT !.up = ~@]
    /\ UNCHANGED <<queue, store, held, now, writable, th, lastOp, main>>

NextCycle ==
    \/ CycleStart
    \/ CycleCheck
    \/ CycleSelect
    \/ \E resp \in ExecResponses : CycleCall(resp)
    \/ CycleOutcome
    \/ CycleSleep
    \/ \E name \in CycleNames : CycleCreated(name)
    \/ CycleNetFlip

SpecCycle == InitCycle /\ [][NextCycle]_vars

\* ---- the running process: files arrive, the instance recovers ----
\* env.pending: the creation events the observer has not dispatched yet;
\* env.arrived: the names created so far (each name is created once);
\* env.healthy: from here on the instance is reachable and uploads succeed
LiveNames == {"new.jpg", "old.png"}
LiveResponses ==
    {[exists |-> FALSE, media |-> "ok", post |-> "ok"],
     [exists |-> TRUE, media |-> "ok", post |-> "ok"]}

InitLive ==
    /\ store = Missing
    /\ queue = <<>>
    /\ held = None
    /\ now = 0
    /\ writable = TRUE
    /\ th = [w |-> Idle, p |-> Idle]
    /\ lastOp = Op("init", 0, <<>>, None)
    /\ env \in [config : {[instance_url |-> Str("https://pixelfed.example"),
                           access_token |-> Str("token")]},
                 dir : {{}, {[name |-> "old.png", is_file |-> TRUE]}},
                 up : BOOLEAN, healthy : {FALSE},
                 pending : {{}}, arrived : {{}}]
    /\ main = [pc |-> "config", exit |-> None, processed |-> {}, cut |-> None]

\* an image file is created in the watched directory while the observer runs
FileCreated(name) ==
    /\ InTry
    /\ name \notin env.arrived
    /\ env' = [env EXCEPT !.pending = @ \cup {name}, !.arrived = @ \cup {name}]
    /\ UNCHANGED <<queue, store, held, now, writable, th, lastOp, main>>

\* faulty variant: the handler drops every event
LiveOnCreatedDrops(name) ==
    /\ name \in env.pending
    /\ env' = [env EXCEPT !.pending = @ \ {name}]
    /\ lastOp' = Op("on_created", 0, queue, [src_path |-> name, is_directory |-> FALSE])
    /\ UNCHANGED <<queue, store, held, now, writable, th, main>>

\* the observer's thread dispatches the event of an image file to on_created
LiveOnCreated(name) ==
    /\ name \in env.pending
    /\ env' = [env EXCEPT !.pending = @ \ {name}]
    /\ IF name \in main.processed
       THEN /\ lastOp' = Op("on_created", 0, queue,
                            [src_path |-> name, is_directory |-> FALSE])
            /\ UNCHANGED <<queue, store, main>>
       ELSE /\ Enqueue(name, DefaultCaption, now)
            /\ main' = [main EXCEPT !.processed = @ \cup {name}]
    /\ UNCHANGED <<held, now, writable, th>>

\* the outcome of an attempt: a success once the instance is healthy; a
\* failure only while the clock readings of the model reach the end of the
\* backoff window it opens
LiveOutcome(resp) ==
    /\ main.pc = "attempt"
    /\ th.p.pc = "upload"
    /\ env.healthy => UploadAndPost(resp).success
    /\ ~UploadAndPost(resp).success =>
           \E t \in MainTimes : t >= now + Backoff(held.retry_count + 1)
    /\ PollOutcome(resp)

LiveNetFlip == ~env.healthy /\ NetFlip

Recover ==
    /\ InTry
    /\ ~env.healthy
    /\ env' = [env EXCEPT !.healthy = TRUE, !.up = TRUE]
    /\ UNCHANGED <<queue, store, held, now, writable, th, lastOp, main>>

LiveMain ==
    \/ MainConfig
    \/ MainStartup
    \/ PollStart
    \/ PollCheck
    \/ PollSelect
    \/ \E resp \in LiveResponses : LiveOutcome(resp)
    \/ PollReturn
    \/ PollSleep
    \/ SaveOpen("p")
    \/ SaveDump("p")
    \/ SaveClose("p")

LiveWatcher == \E name \in LiveNames : LiveOnCreated(name)

NextLive ==
    \/ LiveMain
    \/ LiveWatcher
    \/ \E name \in LiveNames : FileCreated(name)
    \/ LiveNetFlip
    \/ Recover

\* the main thread and the observer's thread keep running
SpecLive ==
    InitLive /\ [][NextLive]_vars /\ WF_vars(LiveMain) /\ WF_vars(LiveWatcher)

\* ---- the poll loop in the long run: attempts that take time and fail ----
\* For behaviours without end the state is kept relative to the present.
\* The clock reads Horizon at every step, and when d seconds pass every
\* timestamp moves d seconds into the past, those more than Horizon ago
\* staying at 0: get_next reads timestamps only in the difference
\* now - last_attempt and compares it with 300 s at most.  A retry_count
\* above RetrySat is kept as RetrySat: get_next reads it only through the
\* backoff, which is 300 s from 5 on, and get_stats through > 0.
Horizon == 300
RetryNames == <<"a.jpg", "b.jpg", "x.jpg">>
\* how long upload_and_post takes before it returns
UploadTimes == {0, 300}
RetryResponses ==
    {[exists |-> TRUE, media |-> "ok", post |-> "http"],
     [exists |-> TRUE, media |-> "ok", post |-> "ok"]}

Earlier(stamp, d) ==
    IF IsoTimestamp(stamp) >= d THEN IsoFormat(IsoTimestamp(stamp) - d)
    ELSE IsoFormat(0)

Older(item, d) ==
    [item EXCEPT !.added_at = Earlier(@, d),
                 !.last_attempt = IF @ = None THEN None ELSE Earlier(@, d),
                 !.tfail = IF @ = None THEN None
                           ELSE [at |-> IF @.at >= d THEN @.at - d ELSE 0]]

Elapse(q, d) == [i \in 1..Len(q) |-> Older(q[i], d)]

Saturated(item) ==
    [item EXCEPT !.retry_count = IF @ > RetrySat THEN RetrySat ELSE @,
                 !.nfail = IF @ > RetrySat THEN RetrySat ELSE @]

\* an item that failed k times, the last time 300 s ago or more
OldItem(i, k) ==
    Saturated([NewItem(i, RetryNames[i], DefaultCaption, 0)
                   EXCEPT !.retry_count = k, !.last_attempt = IsoFormat(0),
                          !.error = Str("Request failed while creating post"),
                          !.nfail = k, !.tfail = [at |-> 0]])

\* the process starts on the store a previous run left: three items that
\* failed four or five times
InitRetry ==
    /\ \E k \in [1..Len(RetryNames) -> {RetrySat - 1, RetrySat}] :
           store = JsonDump([i \in 1..Len(RetryNames) |-> OldItem(i, k[i])])
    /\ queue = <<>>
    /\ held = None
    /\ now = Horizon
    /\ writable = TRUE
    /\ th = [w |-> Idle, p |-> Idle]
    /\ lastOp = Op("init", 0, <<>>, None)
    /\ env = [config |-> [instance_url |-> Str("https://pixelfed.example"),
                          access_token |-> Str("token")],
              dir |-> {}, up |-> TRUE]
    /\ main = [pc |-> "config", exit |-> None, processed |-> {}, cut |-> None]

\* upload_and_post returns after d seconds and the outcome is passed to the
\* queue
RetryOutcome(d, resp) ==
    /\ main.pc = "attempt"
    /\ th.p.pc = "upload"
    /\ LET r == UploadAndPost(resp)
           q == Elapse(queue, d)
           j == IndexOf(q, Older(held, d))
       IN /\ lastOp' = Op(IF r.success THEN "mark_success" ELSE "mark_failure",
                          j, q, IF r.success THEN None ELSE ErrorOr(r.error))
          /\ queue' = IF j = 0 THEN q
                      ELSE IF r.success THEN RemoveAt(q, j)
                      ELSE [q EXCEPT ![j] = Saturated(Failed(@, ErrorOr(r.error), now))]
          /\ held' = IF j # 0 /\ ~r.success THEN queue'[j] ELSE Older(held, d)
          /\ th' = [th EXCEPT !.p.pc = IF j = 0 THEN "idle" ELSE "open"]
    /\ UNCHANGED <<store, now, writable, main, env>>

\* time.sleep(2)
RetrySleep ==
    /\ main.pc = "sleep"
    /\ queue' = Elapse(queue, 2)
    /\ held' = IF held = None THEN None ELSE Older(held, 2)
    /\ main' = [main EXCEPT !.pc = "loop"]
    /\ lastOp' = Op("sleep", 0, queue', None)
    /\ UNCHANGED <<store, now, writable, th, env>>

RetryMain ==
    \/ MainConfig
    \/ MainStartup
    \/ PollStart
    \/ PollCheck
    \/ PollSelect
    \/ \E d \in UploadTimes, resp \in RetryResponses : RetryOutcome(d, resp)
    \/ PollReturn
    \/ RetrySleep
    \/ SaveOpen("p")
    \/ SaveDump("p")
    \/ SaveClose("p")

NextRetry == RetryMain

SpecRetry == InitRetry /\ [][NextRetry]_vars /\ WF_vars(RetryMain)

\* ---- the vocabulary of the claims ----
\* the backoff table as the specification states it
TableBackoff(k) ==
    CASE k = 0 -> 0
      [] k = 1 -> 10
      [] k = 2 -> 30
      [] k = 3 -> 60
      [] k = 4 -> 120
      [] OTHER -> 300

\* seconds since the item's last recorded failure
SinceFailure(item) == now - item.tfail.at

\* eligibility as the specification states it
SpecEligible(item) ==
    \/ item.last_attempt = None
    \/ item.tfail # None /\ SinceFailure(item) >= TableBackoff(item.retry_count)

EligibleIdx == {i \in 1..Len(queue) : SpecEligible(queue[i])}

\* position of the object `id` in the list q, 0 when it is not in it
PosOf(q, id) ==
    IF \E i \in 1..Len(q) : q[i].id = id
    THEN CHOOSE i \in 1..Len(q) : q[i].id = id
    ELSE 0

\* the object the caller holds was in the queue when the last operation began
HeldWasQueued == held # None /\ PosOf(lastOp.pre, held.id) # 0

\* C1: get_next returns the first item, in insertion order, that is eligible
\* (never attempted, or its backoff has elapsed), and None exactly when no item
\* is eligible; an earlier item in backoff does not block a later eligible one.
C1_FirstEligible ==
    lastOp.op = "get_next" =>
        IF EligibleIdx = {}
        THEN held = None
        ELSE /\ held # None
             /\ \E i \in EligibleIdx :
                    /\ \A j \in EligibleIdx : i <= j
                    /\ held = queue[i]

C1_Witness ==
    /\ lastOp.op = "get_next"
    /\ Len(queue) = 2
    /\ ~SpecEligible(queue[1])
    /\ held # None
    /\ held.id = queue[2].id

\* C2: get_next never returns an item with retry_count k >= 1 before
\* backoff(k) seconds have passed since its last failure, and right after a
\* mark_failure on the only item of the queue get_next returns None.
C2_BackoffRespected ==
    /\ (lastOp.op = "get_next" /\ held # None /\ held.retry_count >= 1) =>
            /\ held.tfail # None
            /\ SinceFailure(held) >= TableBackoff(held.retry_count)
    /\ (lastOp.op = "mark_failure" /\ lastOp.idx # 0 /\ Len(queue) = 1) =>
            GetNextIdx(queue, now) = 0

C2_Witness ==
    /\ lastOp.op = "get_next"
    /\ held # None
    /\ held.retry_count = 4
    /\ SinceFailure(held) = 120

\* C3: the backoff delay never decreases with retry_count and is 300 s from
\* retry_count 5 on: such an item is returned by get_next exactly when 300 s
\* have passed since its last failure; get_stats reports as max_retry_count
\* the number of failures of the item that failed most.
C3_BackoffCeiling ==
    /\ \A k \in 0..MaxRetryBackoff : Backoff(k) <= Backoff(k + 1)
    /\ \A i \in 1..Len(queue) :
          queue[i].retry_count >= 5 =>
              (GetNextIdx(<<queue[i]>>, now) = 1 <=> SinceFailure(queue[i]) >= 300)
    /\ \A i \in 1..Len(queue) : GetStats(queue).max_retry_count >= queue[i].nfail
    /\ Len(queue) > 0 =>
          \E i \in 1..Len(queue) : GetStats(queue).max_retry_count = queue[i].nfail

C3_Witness ==
    /\ lastOp.op = "get_next"
    /\ held # None
    /\ held.nfail = 6
    /\ SinceFailure(held) = 300
    /\ GetStats(queue).max_retry_count = 6

\* C4: an item with retry_count 0 is eligible at every clock reading: with
\* such an item in the queue get_next does not return None, and it returns that
\* item unless an earlier item is eligible.
C4_FreshAlwaysEligible ==
    \A i \in 1..Len(queue) :
        (lastOp.op = "get_next" /\ queue[i].retry_count = 0) =>
            /\ held # None
            /\ \/ held = queue[i]
               \/ \E j \in 1..(i - 1) : held = queue[j] /\ SpecEligible(queue[j])

C4_Witness ==
    /\ lastOp.op = "get_next"
    /\ now > 0
    /\ Len(queue) = 2
    /\ queue[1].retry_count > 0
    /\ queue[2].retry_count = 0
    /\ held = queue[2]

\* C5: mark_failure(item, error) on an item of the queue adds exactly 1 to
\* that item's retry_count, sets its last_attempt to the current time and its
\* error to the message, and leaves the other items, the length and the order
\* of the queue as they were.
C5_MarkFailureEffect ==
    (lastOp.op = "mark_failure" /\ HeldWasQueued) =>
        LET k == PosOf(lastOp.pre, held.id)
        IN /\ Len(queue) = Len(lastOp.pre)
           /\ \A i \in 1..Len(queue) : i # k => queue[i] = lastOp.pre[i]
           /\ queue[k].id = held.id
           /\ queue[k].retry_count = lastOp.pre[k].retry_count + 1
           /\ queue[k].last_attempt # None
           /\ IsoTimestamp(queue[k].last_attempt) = now
           /\ queue[k].error = lastOp.arg
           /\ queue[k].file_path = lastOp.pre[k].file_path
           /\ queue[k].caption = lastOp.pre[k].caption
           /\ queue[k].added_at = lastOp.pre[k].added_at

\* C6: mark_success(item) on an item of the queue removes exactly that item:
\* the total of get_stats drops by 1, the other items keep their fields and
\* their order, and get_next does not return the removed item afterwards.
C6_MarkSuccessEffect ==
    (lastOp.op = "mark_success" /\ HeldWasQueued) =>
        LET k == PosOf(lastOp.pre, held.id)
        IN /\ GetStats(queue).total = GetStats(lastOp.pre).total - 1
           /\ queue = RemoveAt(lastOp.pre, k)
           /\ PosOf(queue, held.id) = 0
           /\ GetNextIdx(queue, now) # 0 => queue[GetNextIdx(queue, now)].id # held.id

\* C7: items with the same file path are independent: mark_success or
\* mark_failure on one of them, as get_next returned it, acts on that object
\* and on no other, also when another item has the same value in every field.
C7_TwinsIndependent ==
    (lastOp.op \in {"mark_success", "mark_failure"} /\ lastOp.idx # 0) =>
        lastOp.pre[lastOp.idx].id = held.id

\* C8 as stated: after every add, mark_success or mark_failure that returns
\* while the store is writable, the store holds the in-memory queue.
C8_Original ==
    (lastOp.op \in {"add", "mark_success", "mark_failure"} /\ writable) =>
        store = JsonDump(queue)

\* C8, amended: after every add, and every mark_success or mark_failure that
\* finds its item in the queue, that returns while the store is writable, the
\* store holds the in-memory queue: the same items, field values and order.
C8_WriteThrough ==
    (lastOp.op \in {"add", "mark_success", "mark_failure"} /\ lastOp.idx # 0
        /\ writable) =>
        store = JsonDump(queue)

C8_Witness ==
    /\ lastOp.op = "mark_failure"
    /\ lastOp.idx = 2
    /\ writable
    /\ store = JsonDump(queue)

\* C9: persistence is crash-safe: when the process stops at any point of
\* add, mark_success or mark_failure, the queue constructed from the store at
\* the next start equals the queue before the operation or the queue after
\* it, so no pending item is lost.
C9_CrashSafe ==
    lastOp.op = "crash" =>
        \/ Vals(queue) = Vals(lastOp.pre)
        \/ Vals(queue) = Vals(lastOp.post)

\* C10: add in the watcher's thread is safe beside the poll loop's get_next /
\* upload / mark_success / mark_failure: in every interleaving, once both
\* have finished, neither update is lost and the store holds the in-memory
\* queue, with the added item and the poll loop's mutation.
C10_NoLostUpdate ==
    (th.w.pc = "idle" /\ th.p.pc = "idle" /\ store.kind # "missing") =>
        store = JsonDump(queue)

\* C11 as stated: two get_next calls with no mark_success and no mark_failure
\* between them return the same item, whatever time passes between the two.
C11_Original ==
    [][(lastOp.op = "get_next" /\ lastOp'.op = "get_next") => held' = held]_vars

\* the item's backoff was still running at the clock reading t
InBackoffAt(item, t) ==
    /\ item.tfail # None
    /\ t - item.tfail.at < TableBackoff(item.retry_count)

\* C11, amended: of two get_next calls with no other call between them, the
\* second returns what the first returned, unless the backoff of an item that
\* stands before it in the queue (of any item, when the first returned None)
\* has elapsed between the two calls: then it returns such an item.
C11_PeekStable ==
    /\ [](lastOp.op = "get_next" /\ lastOp.arg.at = now =>
              held = IF GetNextIdx(queue, now) = 0 THEN None
                     ELSE queue[GetNextIdx(queue, now)])
    /\ [][(lastOp.op = "get_next" /\ lastOp'.op = "get_next") =>
              \/ held' = held
              \/ /\ held' # None
                 /\ InBackoffAt(held', lastOp.arg.at)
                 /\ ~InBackoffAt(held', now')
                 /\ held # None => PosOf(queue, held'.id) < PosOf(queue, held.id)]_vars

C11_Witness ==
    /\ lastOp.op = "get_next"
    /\ lastOp.arg.prev # None
    /\ lastOp.arg.prev.item # None
    /\ Len(queue) = 2
    /\ lastOp.arg.prev.item = queue[2]
    /\ held = queue[1]

\* C12: get_next is read-only: it changes no field of any item, neither the
\* length nor the order of the queue in memory, and does not write the store.
C12_GetNextReadOnly ==
    /\ [](lastOp.op = "get_next" => queue = lastOp.pre)
    /\ [][lastOp'.op = "get_next" => queue' = queue /\ store' = store]_vars

C12_Witness ==
    /\ lastOp.op = "get_next"
    /\ Len(queue) = 2
    /\ held = queue[2]
    /\ held.retry_count > 0
    /\ queue = lastOp.pre
    /\ store = JsonDump(queue)

\* C13: add(file_path, caption) appends exactly one new item at the end of
\* the queue, with retry_count 0, last_attempt and error null, the file path
\* and the caption given (the empty caption when none is given); it leaves
\* the items already there as they were and checks no uniqueness, so every
\* call makes the queue one longer.
C13_AddAppends ==
    lastOp.op = "add" =>
        LET n == Len(lastOp.pre)
            item == queue[Len(queue)]
        IN /\ Len(queue) = n + 1
           /\ SubSeq(queue, 1, n) = lastOp.pre
           /\ item.id \notin QueueIds(lastOp.pre)
           /\ item.retry_count = 0
           /\ item.last_attempt = None
           /\ item.error = None
           /\ item.file_path = lastOp.arg.file_path
           /\ item.caption = lastOp.arg.caption
           /\ lastOp.arg.caption \notin CallCaptions => item.caption = ""

C13_Witness ==
    /\ lastOp.op = "add"
    /\ Len(queue) = 2
    /\ queue[1].retry_count = 1
    /\ queue[1].file_path = queue[2].file_path
    /\ queue[1].caption = queue[2].caption
    /\ queue[2].caption = "sunset"

\* the object the caller holds was not in the queue when the last call began
HeldWasGone == held # None /\ PosOf(lastOp.pre, held.id) = 0

\* C14: mark_success on an item that is not in the queue (never added, or
\* removed already) is a no-op: it leaves the queue in memory and the store
\* as they were.
C14_MarkSuccessGone ==
    /\ []((lastOp.op = "mark_success" /\ HeldWasGone) => queue = lastOp.pre)
    /\ [][(lastOp'.op = "mark_success" /\ held # None /\ PosOf(queue, held.id) = 0) =>
              queue' = queue /\ store' = store]_vars

\* C15: mark_failure on an item that has been removed from the queue (or was
\* never in it), called once or twice, changes no item of the queue: every
\* item that remains keeps its retry_count, last_attempt and error.
C15_MarkFailureGone ==
    (lastOp.op = "mark_failure" /\ HeldWasGone) => Vals(queue) = Vals(lastOp.pre)

\* C16: round trip: for every queue reached by add, mark_failure and
\* mark_success, a queue constructed from the same store has as many items,
\* with the same field values, in the same order.
C16_RoundTrip ==
    /\ LET fresh == LoadQueue(store)
       IN /\ Len(fresh) = Len(queue)
          /\ \A i \in 1..Len(queue) : Val(fresh[i]) = Val(queue[i])
    /\ (lastOp.op = "restart" /\ store.kind = "doc") => JsonDump(queue) = store

C16_Witness ==
    /\ lastOp.op = "restart"
    /\ Len(queue) = 2
    /\ queue[1].retry_count = 2
    /\ queue[1].error = Str("timeout")
    /\ queue[1].last_attempt = IsoFormat(10)
    /\ queue[2].last_attempt = None
    /\ queue[2].file_path # queue[1].file_path
    /\ Vals(LoadQueue(store)) = Vals(queue)

\* C17: constructing a queue when the store is missing, or present but
\* unparsable, yields an empty queue; construction does not write the store,
\* so a missing store is not created.
C17_LoadDegrades ==
    /\ []((lastOp.op \in {"init", "restart"} /\ store.kind # "doc") => queue = <<>>)
    /\ [][lastOp'.op = "restart" => store' = store]_vars

C17_Witness ==
    /\ lastOp.op = "restart"
    /\ store = Partial
    /\ ~writable
    /\ queue = <<>>

\* the last call was an add, or a mark_success or mark_failure that found its
\* item, and so called _save_queue
SavingCall ==
    /\ lastOp.op \in {"add", "mark_success", "mark_failure"}
    /\ lastOp.idx # 0

\* C18: when writing the store fails during add, mark_success or
\* mark_failure, the effect of the call on the queue in memory stands; after
\* the next such call whose save succeeds the store holds the queue in memory
\* again, with the effects of the calls whose save had failed.
C18_SaveFailureTolerated ==
    /\ (SavingCall /\ ~writable) =>
           LET k == lastOp.idx
               pre == lastOp.pre
           IN CASE lastOp.op = "add" ->
                      /\ Len(queue) = Len(pre) + 1
                      /\ SubSeq(queue, 1, Len(pre)) = pre
                      /\ queue[k].file_path = lastOp.arg.file_path
                [] lastOp.op = "mark_success" ->
                      queue = RemoveAt(pre, k)
                [] lastOp.op = "mark_failure" ->
                      /\ Len(queue) = Len(pre)
                      /\ \A i \in 1..Len(pre) : i # k => queue[i] = pre[i]
                      /\ queue[k].retry_count = pre[k].retry_count + 1
                      /\ queue[k].error = lastOp.arg
    /\ (SavingCall /\ lastOp.stale /\ writable) => store = JsonDump(queue)

C18_Witness ==
    /\ lastOp.op = "mark_failure"
    /\ SavingCall
    /\ lastOp.stale
    /\ writable
    /\ Len(queue) = 2
    /\ Len(LoadQueue(store)) = 2
    /\ LoadQueue(store)[lastOp.idx].retry_count = 1

\* C19: in every state reached from an empty queue by add, get_next,
\* mark_success and mark_failure, each item has retry_count 0 exactly when
\* its last_attempt is null.
C19_RetryIffAttempted ==
    \A i \in 1..Len(queue) :
        queue[i].retry_count = 0 <=> queue[i].last_attempt = None

C19_Witness ==
    /\ lastOp.op = "mark_failure"
    /\ Len(queue) = 2
    /\ queue[1].retry_count = 2
    /\ queue[1].last_attempt # None
    /\ queue[2].retry_count = 0
    /\ queue[2].last_attempt = None

\* the positions of the items of q that were never attempted, and of the others
NeverAttempted(q) == {i \in 1..Len(q) : q[i].last_attempt = None}
Retrying(q) == {i \in 1..Len(q) : q[i].last_attempt # None}

\* C20: get_stats is read-only and returns, in every reachable state, total =
\* the number of items, never_attempted = the number of items with a null
\* last_attempt, retrying = the number of items with a last_attempt (the two
\* add up to total) and max_retry_count = the largest retry_count of an item;
\* all four are 0 for an empty queue.
C20_StatsCorrect ==
    /\ [](LET st == GetStats(queue)
          IN /\ st.total = Len(queue)
             /\ st.never_attempted = Cardinality(NeverAttempted(queue))
             /\ st.retrying = Cardinality(Retrying(queue))
             /\ st.never_attempted + st.retrying = st.total
             /\ \A i \in 1..Len(queue) : st.max_retry_count >= queue[i].retry_count
             /\ Len(queue) > 0 =>
                    \E i \in 1..Len(queue) : st.max_retry_count = queue[i].retry_count
             /\ Len(queue) = 0 =>
                    st = [total |-> 0, never_attempted |-> 0, retrying |-> 0,
                          max_retry_count |-> 0])
    /\ [](lastOp.op = "get_stats" =>
              queue = lastOp.pre /\ lastOp.arg = GetStats(queue))
    /\ [][lastOp'.op = "get_stats" => queue' = queue /\ store' = store]_vars

C20_Witness ==
    /\ lastOp.op = "get_stats"
    /\ Len(queue) = 2
    /\ lastOp.arg = [total |-> 2, never_attempted |-> 1, retrying |-> 1,
                     max_retry_count |-> 1]

\* the names with an extension of the allow-list, whatever its case, and the
\* image files found in the directory at startup
ImageNames == {"new.jpg", "SHOT.JPG", "old.png"}
KnownAtStartup == {e.name : e \in {x \in env.dir : x.is_file /\ x.name \in ImageNames}}

\* C24: the feed adapter calls add exactly once for each newly observed file
\* whose extension is in the allow-list, compared case-insensitively, and
\* never for a directory, for a file with another extension, or a second
\* time for a path it has queued already, over any sequence of creation events.
C24_AddOncePerNewFile ==
    \A n \in FeedNames :
        /\ main.calls[n] <= 1
        /\ main.calls[n] = 1 <=>
               /\ [src_path |-> n, is_directory |-> FALSE] \in main.seen
               /\ n \in ImageNames
               /\ n \notin KnownAtStartup

C24_Witness ==
    /\ lastOp.op = "on_created"
    /\ lastOp.arg = [src_path |-> "SHOT.JPG", is_directory |-> FALSE]
    /\ main.calls["SHOT.JPG"] = 1
    /\ [src_path |-> "new.jpg", is_directory |-> TRUE] \in main.seen
    /\ [src_path |-> "notes.txt", is_directory |-> FALSE] \in main.seen
    /\ main.calls["new.jpg"] = 0
    /\ queue = <<>>

\* C25: a file that is in the watched directory at startup is never passed to
\* add by the feed adapter, whatever creation events follow and whatever the
\* queue contains.
C25_StartupFilesSkipped ==
    \A e \in env.dir : e.is_file => main.calls[e.name] = 0

C25_Witness ==
    /\ lastOp.op = "on_created"
    /\ lastOp.arg = [src_path |-> "old.png", is_directory |-> FALSE]
    /\ [name |-> "old.png", is_file |-> TRUE] \in env.dir
    /\ main.calls["old.png"] = 0
    /\ main.calls["new.jpg"] = 1
    /\ queue = <<>>

\* C26: an item leaves the queue only through a mark_success for it: an
\* item that was in the queue when the last call began and is not in it
\* now was removed by mark_success called with that item; add, get_next,
\* mark_failure and get_stats remove nothing.
C26_OnlyOwnMarkSuccessRemoves ==
    \A i \in 1..Len(lastOp.pre) :
        PosOf(queue, lastOp.pre[i].id) = 0 =>
            /\ lastOp.op = "mark_success"
            /\ held # None
            /\ held.id = lastOp.pre[i].id

\* ---- the calls of one poll cycle ----
LogCount(op) == Cardinality({i \in 1..Len(main.log) : main.log[i] = op})
Outcomes == LogCount("mark_success") + LogCount("mark_failure")

\* C35: a poll cycle that gets an item from get_next calls the executor
\* once for it and then makes one outcome call: mark_success exactly when
\* the executor reported success, else mark_failure with an error text that
\* is not null; the queue gets shorter only by a mark_success after the
\* post of the item was created.
C35_OneAttemptOneOutcome ==
    /\ [](/\ LogCount("get_next") <= 1
          /\ LogCount("upload_and_post") <= 1
          /\ Outcomes <= LogCount("upload_and_post"))
    /\ []((main.pc = "sleep" /\ LogCount("get_next") = 1 /\ held # None) =>
              main.log = <<"check_connection", "get_next", "upload_and_post",
                           IF main.result.success THEN "mark_success"
                           ELSE "mark_failure">>)
    /\ [](lastOp.op = "mark_failure" => lastOp.arg # None)
    /\ [][(main'.log # main.log /\ lastOp'.op \in {"mark_success", "mark_failure"}) =>
              /\ main.pc = "outcome"
              /\ lastOp'.idx = PosOf(queue, held.id)]_vars
    /\ [][Len(queue') < Len(queue) =>
              /\ lastOp'.op = "mark_success"
              /\ main.result.success
              /\ main.result.posted
              /\ PosOf(queue', held.id) = 0
              /\ Len(queue') = Len(queue) - 1]_vars

C35_Witness ==
    /\ main.pc = "sleep"
    /\ main.log = <<"check_connection", "get_next", "upload_and_post", "mark_failure">>
    /\ main.result = [success |-> FALSE, error |-> None, posted |-> TRUE]
    /\ lastOp.op = "mark_failure"
    /\ lastOp.arg = Str("Unknown error")
    /\ Len(queue) = 2
    /\ queue[1].retry_count = 1

\* every item of the queue is inside its backoff window
AllInBackoff == Len(queue) > 0 /\ EligibleIdx = {}

\* C38: a poll cycle makes a remote call only when there is work: with an
\* empty queue it makes no call at all (no connectivity check, no
\* upload); with every item in backoff it makes the connectivity check and
\* get_next and then nothing: no upload, no outcome call, the queue and the
\* store as they were; the check is made only for a non-empty queue and an
\* upload only for an item get_next returned.
C38_CallsOnlyForWork ==
    /\ [][(main.pc = "loop" /\ main'.pc # "loop" /\ Len(queue) = 0) =>
              /\ main'.pc = "sleep"
              /\ main'.log = <<>>]_vars
    /\ [][(main.pc = "select" /\ main'.pc # "select" /\ AllInBackoff) =>
              /\ main'.pc = "sleep"
              /\ main'.log = <<"check_connection", "get_next">>
              /\ held' = None
              /\ queue' = queue
              /\ store' = store]_vars
    /\ [][main.pc = "sleep" => main'.log = main.log]_vars
    /\ [][(main'.log # main.log /\ main'.log # <<>>) =>
              LET call == main'.log[Len(main'.log)]
              IN /\ call = "check_connection" => Len(queue) > 0
                 /\ call = "upload_and_post" =>
                        /\ held # None
                        /\ lastOp.op \in {"get_next", "add"}
                        /\ PosOf(queue, held.id) # 0]_vars

C38_Witness ==
    /\ main.pc = "sleep"
    /\ main.log = <<"check_connection", "get_next">>
    /\ held = None
    /\ now = 2
    /\ Len(queue) = 1
    /\ queue[1].retry_count = 1
    /\ AllInBackoff

\* ---- the control loop ----
Interrupted == main.cut # None

\* C21: when the connectivity pre-check of a poll cycle fails, the cycle
\* selects no item and calls neither the executor nor mark_failure: the
\* main thread goes from the failed check to the sleep that ends the cycle
\* (or to the interrupt's handler) and from there to the next cycle, and
\* the step of the failed check leaves the queue, the store and the
\* caller's item as they were, so that no retry_count or last_attempt
\* changes.
C21_FailedCheckSkips ==
    /\ [][(main.pc = "check" /\ ~env.up /\ main'.pc # "check") =>
              /\ main'.pc \in {"sleep", "stopping"}
              /\ th'.p.pc = "idle"
              /\ queue' = queue /\ store' = store /\ held' = held]_vars
    /\ [][(main.pc = "sleep" /\ main'.pc # "sleep") =>
              /\ main'.pc \in {"loop", "stopping"}
              /\ queue' = queue /\ store' = store /\ held' = held]_vars

C21_Witness ==
    /\ lastOp.op = "check_connection"
    /\ ~lastOp.arg.ok
    /\ main.pc = "sleep"
    /\ Len(queue) = 2
    /\ queue[1].retry_count = 1
    /\ Eligible(queue[1], now)
    /\ queue[2].retry_count = 0

\* C22: an interrupt that arrives while an attempt is in flight does not
\* cut it short: when the process has left the loop after an interrupt, the
\* attempt that was under way had its outcome recorded (the interrupt did
\* not strike between the start of the executor and the return of
\* mark_success or mark_failure) and the store holds the final queue.
C22_GracefulShutdown ==
    (Interrupted /\ main.pc \in {"stopping", "exited"}) =>
        /\ main.cut.p = "idle"
        /\ Vals(LoadQueue(store)) = Vals(queue)

\* C23: at most one attempt is in flight: the executor or an outcome call
\* is under way only inside one cycle, for the one item get_next returned,
\* and the main thread enters an attempt only when none is under way.
C23_OneInFlight ==
    /\ [](th.p.pc # "idle" => (main.pc = "attempt" /\ held # None))
    /\ [][(main'.pc = "attempt" /\ main.pc # "attempt") =>
              (th.p.pc = "idle" /\ main.pc = "select")]_vars
    /\ [][(lastOp'.op = "get_next" /\ main.pc = "select" /\ main'.pc # "select") =>
              th.p.pc = "idle"]_vars

C23_Witness ==
    /\ th.p.pc = "upload"
    /\ main.pc = "attempt"
    /\ Len(queue) = 2
    /\ held = queue[1]
    /\ Eligible(queue[2], now)

\* C27: a failed attempt, of any of the kinds the executor reports (missing
\* file, connection error, timeout, non-2xx response, no media id, a failed
\* post), is recorded by mark_failure on the item of the attempt and the
\* process goes on: it exits only for missing configuration or after an
\* interrupt, and after every recorded failure the main thread reaches the
\* next poll cycle unless it is interrupted.
C27_FailureIsLocal ==
    /\ [](\A resp \in Responses :
             UploadAndPost(resp).success <=>
                 (resp.exists /\ resp.media = "ok" /\ resp.post = "ok"))
    /\ [](main.pc = "exited" => (Interrupted \/ ConfigMissing(env.config)))
    /\ [][(th.p.pc = "upload" /\ th'.p.pc # "upload" /\ main'.pc = "attempt"
            /\ lastOp'.op # "mark_success") =>
              /\ lastOp'.op = "mark_failure"
              /\ lastOp'.idx = PosOf(queue, held.id)
              /\ lastOp'.idx # 0
              /\ queue'[lastOp'.idx].retry_count = queue[lastOp'.idx].retry_count + 1
              /\ queue'[lastOp'.idx].error = lastOp'.arg]_vars
    /\ (lastOp.op = "mark_failure") ~> (main.pc \in {"loop", "stopping", "exited"})

C27_Witness ==
    /\ main.pc = "loop"
    /\ lastOp.op = "sleep"
    /\ now = 12
    /\ Len(queue) = 1
    /\ queue[1].retry_count = 1
    /\ queue[1].error = Str("No media ID returned")

\* C30: with the instance address or the access token missing the process
\* exits with a status other than 0 and never loads the queue, starts the
\* watcher or enters the loop; otherwise it exits only after an interrupt,
\* with status 0 and with the store holding the queue.
C30_ExitBehaviour ==
    /\ ConfigMissing(env.config) =>
           /\ main.pc \in {"config", "exited"}
           /\ main.pc = "exited" => main.exit.code # 0
           /\ queue = <<>> /\ store = Missing /\ main.processed = {}
    /\ (~ConfigMissing(env.config) /\ main.pc = "exited") =>
           /\ Interrupted
           /\ main.exit.code = 0
           /\ Vals(LoadQueue(store)) = Vals(queue)

InQueue(name) == \E i \in 1..Len(queue) : queue[i].file_path = name

\* C29 as stated: every image file created while the process runs is
\* eventually enqueued.
C29_Original ==
    \A name \in LiveNames : (name \in env.pending) ~> InQueue(name)

\* C29: every image file created while the observer runs at a path that
\* was not in the directory at startup and was not handled before is
\* eventually enqueued; once the instance stays reachable and uploads
\* succeed every queued item is eventually removed, and the queue is empty
\* for good once no more files arrive.
C29_EventuallyPosted ==
    /\ \A name \in LiveNames :
           (name \in env.pending /\ name \notin main.processed) ~> InQueue(name)
    /\ \A name \in LiveNames : (env.healthy /\ InQueue(name)) ~> ~InQueue(name)
    /\ [](env.healthy => <>[](queue = <<>>))

C29_Witness ==
    /\ env.healthy
    /\ env.arrived = LiveNames
    /\ env.pending = {}
    /\ env.dir = {}
    /\ queue = <<>>
    /\ lastOp.op = "mark_success"
    /\ lastOp.pre[1].retry_count = 1
    /\ now = 12

Attempting(name) == th.p.pc = "upload" /\ held # None /\ held.file_path = name

\* C28: an item whose attempts always fail is never dropped, a failure
\* adds 1 to its retry_count, its backoff window is 300 s from the fifth
\* failure on, and with the instance reachable it is attempted again and
\* again: as long as it is in the queue another attempt on it follows.
C28_RetriedForever ==
    /\ [](\A k \in 5..(RetrySat + 3) : Backoff(k) = 300)
    /\ [][lastOp'.op = "mark_failure" =>
              /\ Len(queue') = Len(queue)
              /\ \A i \in 1..Len(queue) : queue'[i].id = queue[i].id]_vars
    /\ \A i \in 1..Len(RetryNames) :
           InQueue(RetryNames[i]) ~>
               (Attempting(RetryNames[i]) \/ ~InQueue(RetryNames[i]))

\* get_next has just returned the item of this name to the poll loop
Selected(name) ==
    /\ lastOp.op = "get_next"
    /\ main.pc = "attempt"
    /\ held # None
    /\ held.file_path = name

\* C36: no starvation: with the instance reachable and the poll loop
\* running on, every item that is in the queue is selected by get_next, and
\* with that attempted, at some later moment, whatever the items before it
\* do and however long their attempts take.
C36_NoStarvation ==
    \A i \in 1..Len(RetryNames) :
        (env.up /\ InQueue(RetryNames[i])) ~> Selected(RetryNames[i])

\* C32: the relative order of two items that are both in the queue never
\* changes: two items that were in the queue when the last call began and
\* are in it now stand in the order they stood in, whatever the call was;
\* a failed item keeps its position.
C32_OrderKept ==
    /\ \A i, j \in 1..Len(lastOp.pre) :
           (/\ i < j
            /\ PosOf(queue, lastOp.pre[i].id) # 0
            /\ PosOf(queue, lastOp.pre[j].id) # 0)
           => PosOf(queue, lastOp.pre[i].id) < PosOf(queue, lastOp.pre[j].id)
    /\ (lastOp.op = "mark_failure" /\ lastOp.idx # 0) =>
           /\ Len(queue) = Len(lastOp.pre)
           /\ \A i \in 1..Len(queue) : queue[i].id = lastOp.pre[i].id

C32_Witness ==
    /\ lastOp.op = "mark_failure"
    /\ lastOp.idx = 1
    /\ Len(queue) = 2
    /\ queue[1].retry_count = 1
    /\ queue[2].retry_count = 0
    /\ held = queue[1]
    /\ queue[1].caption # queue[2].caption

\* C34: the retry_count of an item is the number of failures recorded for
\* it: it is 0 when the item is added, and a call leaves it as it was, except
\* a mark_failure, which adds 1 to the retry_count of the item it was
\* called with and of no other; it never decreases.
C34_CountsOwnFailures ==
    /\ lastOp.op = "add" => queue[Len(queue)].retry_count = 0
    /\ \A i \in 1..Len(lastOp.pre) :
           LET k == PosOf(queue, lastOp.pre[i].id)
               failed == /\ lastOp.op = "mark_failure"
                         /\ held # None
                         /\ held.id = lastOp.pre[i].id
           IN k # 0 =>
                  queue[k].retry_count =
                      lastOp.pre[i].retry_count + (IF failed THEN 1 ELSE 0)

\* every item of the list old that is inside its backoff window is in the
\* list new with its retry_count and its last_attempt
BackoffKept(old, new) ==
    \A i \in 1..Len(old) :
        ~SpecEligible(old[i]) =>
            \E j \in 1..Len(new) :
                /\ new[j].file_path = old[i].file_path
                /\ new[j].added_at = old[i].added_at
                /\ new[j].retry_count = old[i].retry_count
                /\ new[j].last_attempt = old[i].last_attempt

\* C37: backoff survives a restart: when the process stops and a new one
\* constructs the queue from the store, every item that was inside its
\* backoff window when the process stopped (for a process that stops inside
\* a call: before that call began) is in the new queue with the same
\* retry_count and last_attempt, and get_next returns no item before its
\* window has elapsed.
C37_BackoffSurvivesRestart ==
    /\ [][(lastOp'.op = "restart" /\ lastOp' # lastOp) =>
              BackoffKept(queue, queue')]_vars
    /\ [][(lastOp'.op = "crash" /\ lastOp' # lastOp) =>
              BackoffKept(lastOp'.pre, queue')]_vars
    /\ []((lastOp.op = "get_next" /\ lastOp.idx # 0) => SpecEligible(held))

\* two path strings name the same file
SameFile(a, b) == PathStr(a) = PathStr(b)

\* C33: the file path, the caption and added_at of an item are the ones
\* add was called with (and the time of that call) and no later call
\* changes them; the poll loop calls the executor with the path and the
\* caption the item holds.
C33_FieldsKept ==
    /\ lastOp.op = "add" =>
           /\ queue[Len(queue)].file_path = lastOp.arg.file_path
           /\ queue[Len(queue)].caption = lastOp.arg.caption
           /\ IsoTimestamp(queue[Len(queue)].added_at) = now
    /\ \A i \in 1..Len(lastOp.pre) :
           LET k == PosOf(queue, lastOp.pre[i].id)
           IN k # 0 =>
                  /\ queue[k].file_path = lastOp.pre[i].file_path
                  /\ queue[k].caption = lastOp.pre[i].caption
                  /\ queue[k].added_at = lastOp.pre[i].added_at
    /\ (lastOp.op = "upload_and_post" /\ lastOp.idx # 0) =>
           /\ SameFile(lastOp.arg.file_path, queue[lastOp.idx].file_path)
           /\ lastOp.arg.caption = queue[lastOp.idx].caption

C33_Witness ==
    /\ lastOp.op = "upload_and_post"
    /\ lastOp.idx = 1
    /\ Len(queue) = 2
    /\ queue[1].retry_count = 1
    /\ queue[1].caption = "sunset"
    /\ IsoTimestamp(queue[1].added_at) = 0
    /\ now = 10
    /\ lastOp.arg = [file_path |-> "a.jpg", caption |-> "sunset"]

\* ---- the executor ----
\* the media upload was answered 2xx with an object holding a non-empty id
MediaOk(resp) == resp.exists /\ resp.media = "ok"
\* the statuses request was answered 2xx with a non-empty object
PostOk(resp) == resp.post = "ok"
\* a 2xx answer with an empty JSON object, taken for a failure without text
EmptyAnswer(resp) ==
    /\ resp.exists
    /\ resp.media = "empty" \/ (resp.media = "ok" /\ resp.post = "empty")

\* C31 as stated: a call that does not report success returns an error
\* description that is not null.
C31_Original ==
    (main.pc = "done" /\ ~main.result.success) => main.result.error # None

\* C31: one call of upload_and_post sends at most one media request and at
\* most one statuses request, the latter only after the media request
\* returned an object with a non-empty id; it reports success exactly when
\* both requests were answered with a non-empty object, and otherwise
\* failure with an error text, the text being null exactly when one of the
\* two answers was an empty object.
C31_TwoPhase ==
    /\ main.sent.media <= 1
    /\ main.sent.statuses <= 1
    /\ main.sent.statuses = 1 =>
           /\ main.sent.media = 1
           /\ ~Falsy(main.media)
           /\ ~Falsy(main.media.id)
           /\ main.status.media_ids = <<main.media.id>>
    /\ main.pc = "done" =>
           /\ main.result = UploadAndPost(env.resp)
           /\ main.result.success <=> (MediaOk(env.resp) /\ PostOk(env.resp))
           /\ main.result.success => main.result.error = None
           /\ ~main.result.success =>
                  (main.result.error = None <=> EmptyAnswer(env.resp))
           /\ main.sent.statuses = 1 <=> MediaOk(env.resp)
           /\ main.sent.media = 1 <=> env.resp.exists

C31_Witness ==
    /\ main.pc = "done"
    /\ env.resp = [exists |-> TRUE, media |-> "ok", post |-> "empty"]
    /\ main.sent = [media |-> 1, statuses |-> 1]
    /\ main.result = [success |-> FALSE, error |-> None]
    /\ main.status.status = <<"sunset", "from my folder", "CC BY">>

====
